---- MODULE Spec2Model ----
(***************************************************************************)
(* Conversation controller of the LangGraph chat agent: the two-node graph *)
(* of src/graph.py (conversation -> [summarize_conversation] -> END) with  *)
(* its checkpointed per-thread state, driven by the chat-input, thread     *)
(* selection and new-thread handlers of src/app.py.                        *)
(***************************************************************************)
EXTENDS Integers, Sequences, FiniteSets, TLC

VARIABLES
    checkpoint,       \* thread id -> latest persisted checkpoint (SqliteSaver)
    thread_id,        \* st.session_state.thread_id ("" is None)
    current_summary,  \* st.session_state.current_summary
    pc,               \* position of the chat-input handler / graph run
    turn,             \* what the graph run in flight has done so far
    folded,           \* history: per thread, the id sets each Summarizer run selected
    stats,            \* history: per thread, turns that completed / turns that erred
    fn,               \* argument and result of a direct summarize_conversation call
    sess,             \* browser sessions running turns side by side
    mem,              \* records of the memory store (SqliteVecStore)
    tool,             \* the last call of a retrieval tool and what it returned
    ui                \* st.session_state of the login, settings and graph-construction part

\* state of the concurrent-session, retrieval-tool and settings specifications
ext == <<sess, mem, tool, ui>>

vars == <<checkpoint, thread_id, current_summary, pc, turn, folded, stats, fn, ext>>

-----------------------------------------------------------------------------
(* Bounds of the model *)

\* a thread accepts a new user message while it holds fewer messages than this
MaxMsgs == 18
\* turns that end in an error (agent raises, agent returns no AIMessage,
\* summary generation raises), over the whole behaviour
MaxErrors == 1
\* messages of all threads together
MaxTotal == 20
\* tool calls the ReAct agent makes inside one turn
MaxToolCalls == 1
\* results the search provider returns for one query (max_results)
MaxResults == 2
\* calls of the web-search tool
MaxSearches == 2
\* URLs in one call of the URL-fetch tool
MaxUrls == 3
\* a thread accepts a new user message from concurrent sessions while it holds
\* fewer messages than this
MaxConcMsgs == 7
\* longest message list handed to a direct summarize_conversation call
MaxFnLen == 14

(* Program constants *)

\* current_messages[-5:]
WindowSize == 5
\* len(messages) > 6
SummaryThreshold == 6
\* current_messages[:-2]
KeepRecent == 2
\* messages_to_summarize[-10:]
SummaryCap == 10

Threads == {"t1", "t2"}
None == ""

\* response.content of the summary generation call
GenTexts == {"", "sA"}

FallbackText == "Sorry, I encountered an issue."

-----------------------------------------------------------------------------
(* Messages *)

HumanMessage(i) == [type |-> "human", id |-> i, content |-> "prompt"]
AIMessage(i, c) == [type |-> "ai", id |-> i, content |-> c]
ToolMessage(i) == [type |-> "tool", id |-> i, content |-> "observation"]
SystemMessage(c) == [type |-> "system", id |-> 0, content |-> c]

\* Python s[-n:] for n > 0
LastN(s, n) == IF Len(s) <= n THEN s ELSE SubSeq(s, Len(s) - n + 1, Len(s))

\* Python s[:-n] for n > 0
DropLast(s, n) == IF Len(s) <= n THEN <<>> ELSE SubSeq(s, 1, Len(s) - n)

Ids(s) == {s[i].id : i \in DOMAIN s}

\* position of the message with id i in s (0 when absent)
IndexOf(s, i) == IF i \in Ids(s) THEN CHOOSE k \in DOMAIN s : s[k].id = i ELSE 0

\* an id no message of s carries; uuids and provider ids are modelled as 1, 2, ...
FreshId(s) ==
    IF s = <<>> THEN 1
    ELSE 1 + (CHOOSE i \in Ids(s) : \A j \in Ids(s) : j <= i)

\* add_messages reducer of MessagesState: a message without id (id 0) is given a
\* fresh one; a message whose id is already in the list replaces that entry in
\* place, any other message is appended
RECURSIVE add_messages(_, _)
add_messages(left, right) ==
    IF right = <<>> THEN left
    ELSE LET h == Head(right)
             m == IF h.id = 0 THEN [h EXCEPT !.id = FreshId(left)] ELSE h
             k == IndexOf(left, m.id)
             merged == IF k = 0 THEN Append(left, m) ELSE [left EXCEPT ![k] = m]
         IN  add_messages(merged, Tail(right))

-----------------------------------------------------------------------------
(* Graph state (class State(MessagesState): messages, summary) *)

\* the summary channel holds no value until a node writes it: <<>> or <<text>>
NoSummary == <<>>

NoCheckpoint == [saved |-> FALSE, messages |-> <<>>, summary |-> NoSummary]

\* state.get("summary", "")
GetSummary(state) == IF state.summary = NoSummary THEN "" ELSE state.summary[1]

\* mutant: the whole thread is sent instead of the last 5 messages
last_messages_to_send_all(current_messages) == current_messages

\* current_messages[-5:]
last_messages_to_send(current_messages) == LastN(current_messages, WindowSize)

\* the input call_model builds for the ReAct agent
messages_for_react_agent_input(state) ==
    LET summary == GetSummary(state)
        context == IF summary # "" THEN <<SystemMessage(summary)>> ELSE <<>>
    IN  context \o last_messages_to_send(state.messages)

\* k rounds of (tool-calling AIMessage, ToolMessage) inside the ReAct loop
RECURSIVE ToolRounds(_)
ToolRounds(k) ==
    IF k = 0 THEN <<>>
    ELSE ToolRounds(k - 1) \o <<AIMessage(0, "tool_call"), ToolMessage(0)>>

\* react_agent_executor.invoke(agent_input)["messages"]: the input followed by
\* what the loop produced. The loop is a black box: it makes 0..MaxToolCalls
\* tool calls and ends with an answer, or ends on a tool message.
AgentResponses(agent_input, new_id) ==
    { agent_input \o ToolRounds(k) \o <<AIMessage(new_id, "answer")>> :
        k \in 0..MaxToolCalls }
    \cup { agent_input \o ToolRounds(k) : k \in 1..MaxToolCalls }

ToolCallsIn(response) == Cardinality({i \in DOMAIN response : response[i].type = "tool"})

\* mutant: every message of the agent's response is returned to the graph
call_model_return_all(response_messages) ==
    [messages |-> response_messages,
     st_error |-> response_messages[Len(response_messages)].type # "ai"]

\* mutant: the isinstance check is missing, the last message is returned as is
call_model_return_nocheck(response_messages) ==
    [messages |-> <<response_messages[Len(response_messages)]>>, st_error |-> FALSE]

\* lines 45-55 of call_model: what the node returns for an agent response
call_model_return(response_messages) ==
    LET ai_response_message == response_messages[Len(response_messages)]
    IN  IF ai_response_message.type # "ai"
        THEN [messages |-> <<AIMessage(0, FallbackText)>>, st_error |-> TRUE]
        ELSE [messages |-> <<ai_response_message>>, st_error |-> FALSE]

\* mutant: the cap of 10 is not applied
messages_to_summarize_nocap(current_messages) == DropLast(current_messages, KeepRecent)

\* mutant: only the last message is excluded instead of the last two
messages_to_summarize_keep1(current_messages) ==
    LET before == DropLast(current_messages, 1)
    IN  IF Len(before) > SummaryCap THEN LastN(before, SummaryCap) ELSE before

\* lines 63-65 of summarize_conversation
messages_to_summarize(current_messages) ==
    LET before == DropLast(current_messages, KeepRecent)
    IN  IF Len(before) > SummaryCap THEN LastN(before, SummaryCap) ELSE before

\* chat_model.invoke calls one summarize_conversation run makes
summary_llm_calls(state) ==
    IF messages_to_summarize(state.messages) = <<>> THEN 0 ELSE 1

\* mutant: the generated summary is also returned as a new message
summarize_conversation_echo(state, generated) ==
    IF DropLast(state.messages, KeepRecent) = <<>>
    THEN [summary |-> GetSummary(state), messages |-> <<>>]
    ELSE [summary |-> generated, messages |-> <<AIMessage(0, generated)>>]

\* the dict summarize_conversation returns; generated is response.content
summarize_conversation(state, generated) ==
    IF messages_to_summarize(state.messages) = <<>>
    THEN [summary |-> GetSummary(state), messages |-> <<>>]
    ELSE [summary |-> generated, messages |-> <<>>]

\* mutant: the threshold test is >= instead of >
should_continue_ge(state) ==
    IF Len(state.messages) >= SummaryThreshold THEN "summarize_conversation" ELSE "END"

\* conditional edge after the conversation node
should_continue(state) ==
    IF Len(state.messages) > SummaryThreshold THEN "summarize_conversation" ELSE "END"

\* mutant: the messages channel has no reducer, a node's return overwrites it
ApplyMessages_overwrite(state, ret) ==
    [state EXCEPT !.saved = TRUE, !.messages = ret.messages]

\* mutant: merging a messages-only return resets the summary channel
ApplyMessages_nosummary(state, ret) ==
    [state EXCEPT !.saved = TRUE, !.messages = add_messages(state.messages, ret.messages),
                  !.summary = NoSummary]

\* the graph merging a node's return into the channels, then checkpointing
ApplyMessages(state, ret) ==
    [state EXCEPT !.saved = TRUE, !.messages = add_messages(state.messages, ret.messages)]

ApplySummary(state, ret) ==
    [state EXCEPT !.saved = TRUE,
                  !.messages = add_messages(state.messages, ret.messages),
                  !.summary = <<ret.summary>>]

-----------------------------------------------------------------------------
(* Session and run state *)

EmptyTurn ==
    [before |-> NoCheckpoint, \* the thread's checkpoint when the prompt was submitted
     path |-> <<>>,          \* the graph nodes entered, in order
     seen |-> NoCheckpoint,  \* the state handed to call_model
     agent_input |-> <<>>,   \* messages handed to the ReAct agent
     tool_calls |-> 0,       \* tool calls the agent made
     agent_last |-> "",      \* type of the last message the agent returned
     st_error |-> FALSE,     \* call_model reported st.error
     replied |-> FALSE,      \* the conversation node returned
     summarized |-> FALSE,   \* the summarize_conversation node was entered
     selected |-> <<>>,      \* messages_to_summarize of that run
     llm_calls |-> 0]        \* chat_model.invoke calls of that run

FnIdle == [state |-> NoCheckpoint, generated |-> "", called |-> FALSE,
           out |-> [summary |-> "", messages |-> <<>>],
           selected |-> <<>>, llm_calls |-> 0]

Sessions == {"a", "b"}

\* a session: its selected thread, where its handler stands, and the state its
\* graph run holds in memory
IdleSession == [thread_id |-> None, pc |-> "idle", state |-> NoCheckpoint]

NoSessions == [s \in Sessions |-> IdleSession]

\* an API setting that is not there is the empty string
NoApi == [api_key |-> "", base_url |-> ""]
NoApp == [built |-> FALSE, model |-> "", api_key |-> "", base_url |-> "", user_id |-> ""]
NoRun == [ran |-> FALSE, graph_user |-> "", graph_model |-> "", graph_api |-> NoApi,
          user |-> "", selected_model |-> "", settings |-> NoApi]
\* a fresh browser session, nobody logged in, no settings saved for any user
NoUi == [user |-> "",
         db |-> [u \in {"u1", "u2"} |-> NoApi],
         settings_loaded |-> FALSE,
         user_api_settings |-> NoApi,
         inputs |-> [present |-> FALSE, api_key |-> "", base_url |-> ""],
         creds_for_models |-> NoApi,
         model_ids |-> <<>>,
         selected_model |-> "",
         app |-> NoApp,
         last_api_settings |-> <<>>,
         phase |-> "login",
         run |-> NoRun]

NoTool == [name |-> "", calls |-> 0, user |-> "", query |-> <<>>, timestamp |-> 0, rag |-> FALSE,
           results |-> <<>>, urls |-> <<>>, outcomes |-> <<>>, before |-> {},
           written |-> <<>>, raised |-> FALSE, returned |-> <<>>]

\* get_thread_ids(conn, user_id): the threads that have a checkpoint
get_thread_ids == {t \in Threads : checkpoint[t].saved}

\* the summary app.py reads back from checkpointer.get(config), lines 275-279
\* and 338-340: channel_values["summary"] when the checkpoint has one
HasSummary(t) == checkpoint[t].saved /\ checkpoint[t].summary # NoSummary

\* mutant: no else branch, the summary shown before stays (as in lines 339-340)
summary_on_select_keep(t) ==
    IF HasSummary(t) THEN checkpoint[t].summary[1] ELSE current_summary

\* app.py lines 275-279: the summary shown after a thread is selected
summary_on_select(t) ==
    IF HasSummary(t) THEN checkpoint[t].summary[1] ELSE ""

TotalMsgs == Len(checkpoint["t1"].messages) + Len(checkpoint["t2"].messages)
TotalErrors == stats["t1"].bad + stats["t2"].bad

Init ==
    /\ checkpoint = [t \in Threads |-> NoCheckpoint]
    /\ thread_id = None
    /\ current_summary = ""
    /\ pc = "idle"
    /\ turn = EmptyTurn
    /\ folded = [t \in Threads |-> <<>>]
    /\ stats = [t \in Threads |-> [ok |-> 0, bad |-> 0]]
    /\ fn = FnIdle
    /\ sess = NoSessions
    /\ mem = {}
    /\ ui = NoUi
    /\ tool = NoTool

\* "New Thread" button, app.py lines 286-297
NewThread ==
    /\ pc = "idle"
    /\ \E t \in Threads :
         /\ ~checkpoint[t].saved
         /\ thread_id' = t
    /\ current_summary' = ""
    /\ UNCHANGED <<checkpoint, pc, turn, folded, stats, fn, ext>>

\* thread selectbox, app.py lines 252-280
SelectThread ==
    /\ pc = "idle"
    /\ get_thread_ids # {}
    /\ \E selected_thread \in get_thread_ids :
         /\ selected_thread # thread_id
         /\ thread_id' = selected_thread
         /\ current_summary' = summary_on_select(selected_thread)
    /\ UNCHANGED <<checkpoint, pc, turn, folded, stats, fn, ext>>

\* chat input, app.py lines 319-331: app.stream(graph_input) starts a run; the
\* graph merges the input into the thread's state and checkpoints it before
\* the first node runs
ChatInput ==
    /\ pc = "idle"
    /\ thread_id # None
    /\ Len(checkpoint[thread_id].messages) < MaxMsgs
    /\ TotalMsgs < MaxTotal
    /\ checkpoint' = [checkpoint EXCEPT ![thread_id] =
                        ApplyMessages(@, [messages |-> <<HumanMessage(0)>>])]
    /\ pc' = "conversation"
    /\ turn' = [EmptyTurn EXCEPT !.before = checkpoint[thread_id]]
    /\ UNCHANGED <<thread_id, current_summary, folded, stats, fn, ext>>

\* where the run goes after the conversation node
AfterConversation(state) ==
    IF should_continue(state) = "summarize_conversation"
    THEN "summarize_conversation" ELSE "end"

\* mutant: the edge out of summarize_conversation leads back to conversation
AfterSummarize_loop == "conversation"

\* where the run goes after the summarize_conversation node: the edge to END
AfterSummarize == "end"

\* node "conversation" (call_model) returns: its message is merged into the
\* state, the state is checkpointed, should_continue picks the next node
ConversationNode ==
    /\ pc = "conversation"
    /\ LET state == checkpoint[thread_id]
           agent_input == messages_for_react_agent_input(state)
       IN  \E response \in AgentResponses(agent_input, FreshId(state.messages)) :
             LET ret == call_model_return(response)
                 new_state == ApplyMessages(state, ret)
             IN  /\ ret.st_error => TotalErrors < MaxErrors
                 /\ checkpoint' = [checkpoint EXCEPT ![thread_id] = new_state]
                 /\ turn' = [turn EXCEPT !.path = Append(@, "conversation"),
                                         !.seen = state,
                                         !.agent_input = agent_input,
                                         !.tool_calls = ToolCallsIn(response),
                                         !.agent_last = response[Len(response)].type,
                                         !.st_error = ret.st_error,
                                         !.replied = TRUE]
                 /\ pc' = AfterConversation(new_state)
                 /\ stats' = [stats EXCEPT ![thread_id] =
                                IF ret.st_error
                                THEN [@ EXCEPT !.bad = @ + 1]
                                ELSE IF AfterConversation(new_state) = "end"
                                     THEN [@ EXCEPT !.ok = @ + 1]
                                     ELSE @]
    /\ UNCHANGED <<thread_id, current_summary, folded, fn, ext>>

\* react_agent_executor.invoke raises inside call_model: the run ends with the
\* exception, the last checkpoint (input merged) stays
ConversationRaises ==
    /\ pc = "conversation"
    /\ TotalErrors < MaxErrors
    /\ turn' = [turn EXCEPT !.path = Append(@, "conversation"),
                            !.seen = checkpoint[thread_id],
                            !.agent_input =
                                messages_for_react_agent_input(checkpoint[thread_id])]
    /\ pc' = "error"
    /\ stats' = [stats EXCEPT ![thread_id].bad = @ + 1]
    /\ UNCHANGED <<checkpoint, thread_id, current_summary, folded, fn, ext>>

\* node "summarize_conversation" returns: summary replaced, no new messages
SummarizeNode ==
    /\ pc = "summarize_conversation"
    /\ LET state == checkpoint[thread_id]
       IN  \E generated \in GenTexts :
             LET ret == summarize_conversation(state, generated)
             IN  /\ checkpoint' = [checkpoint EXCEPT ![thread_id] =
                                     ApplySummary(state, ret)]
                 /\ turn' = [turn EXCEPT !.summarized = TRUE,
                                         !.path = Append(@, "summarize_conversation"),
                                         !.selected = messages_to_summarize(state.messages),
                                         !.llm_calls = summary_llm_calls(state)]
                 /\ folded' = [folded EXCEPT ![thread_id] =
                                 Append(@, Ids(messages_to_summarize(state.messages)))]
    /\ pc' = AfterSummarize
    /\ stats' = [stats EXCEPT ![thread_id] =
                   IF turn.st_error THEN @ ELSE [@ EXCEPT !.ok = @ + 1]]
    /\ UNCHANGED <<thread_id, current_summary, fn, ext>>

\* chat_model.invoke raises inside summarize_conversation
SummarizeRaises ==
    /\ pc = "summarize_conversation"
    /\ ~turn.st_error
    /\ TotalErrors < MaxErrors
    /\ messages_to_summarize(checkpoint[thread_id].messages) # <<>>
    /\ turn' = [turn EXCEPT !.summarized = TRUE,
                            !.path = Append(@, "summarize_conversation"),
                            !.selected = messages_to_summarize(checkpoint[thread_id].messages),
                            !.llm_calls = 1]
    /\ folded' = [folded EXCEPT ![thread_id] =
                    Append(@, Ids(messages_to_summarize(checkpoint[thread_id].messages)))]
    /\ pc' = "error"
    /\ stats' = [stats EXCEPT ![thread_id].bad = @ + 1]
    /\ UNCHANGED <<checkpoint, thread_id, current_summary, fn, ext>>

\* the stream is consumed: app.py lines 335-340 reload the summary, then st.rerun
Reload ==
    /\ pc = "end"
    /\ current_summary' = IF HasSummary(thread_id)
                          THEN checkpoint[thread_id].summary[1]
                          ELSE current_summary
    /\ pc' = "idle"
    /\ turn' = EmptyTurn
    /\ UNCHANGED <<checkpoint, thread_id, folded, stats, fn, ext>>

\* except Exception: app.py lines 342-347 report the error, then st.rerun
HandleError ==
    /\ pc = "error"
    /\ pc' = "idle"
    /\ turn' = EmptyTurn
    /\ UNCHANGED <<checkpoint, thread_id, current_summary, folded, stats, fn, ext>>

Next ==
    \/ NewThread
    \/ SelectThread
    \/ ChatInput
    \/ ConversationNode
    \/ ConversationRaises
    \/ SummarizeNode
    \/ SummarizeRaises
    \/ Reload
    \/ HandleError

Spec == Init /\ [][Next]_vars

-----------------------------------------------------------------------------
(* summarize_conversation called directly on any state *)

\* a thread log of n messages, user and assistant alternating
FnMessages(n, user_first) ==
    [i \in 1..n |-> IF (i % 2 = 1) = user_first
                    THEN HumanMessage(i) ELSE AIMessage(i, "answer")]

FnStates ==
    { [saved |-> TRUE, messages |-> FnMessages(n, user_first), summary |-> summary] :
        n \in 0..MaxFnLen, user_first \in BOOLEAN,
        summary \in {NoSummary, <<"">>, <<"sA">>, <<"sB">>} }

InitFn ==
    /\ checkpoint = [t \in Threads |-> NoCheckpoint]
    /\ thread_id = None
    /\ current_summary = ""
    /\ pc = "idle"
    /\ turn = EmptyTurn
    /\ folded = [t \in Threads |-> <<>>]
    /\ stats = [t \in Threads |-> [ok |-> 0, bad |-> 0]]
    /\ sess = NoSessions
    /\ mem = {}
    /\ ui = NoUi
    /\ tool = NoTool
    /\ \E state \in FnStates, generated \in GenTexts \cup {"sC"} :
         fn = [FnIdle EXCEPT !.state = state, !.generated = generated]

CallSummarize ==
    /\ ~fn.called
    /\ fn' = [fn EXCEPT !.called = TRUE,
                        !.out = summarize_conversation(fn.state, fn.generated),
                        !.selected = messages_to_summarize(fn.state.messages),
                        !.llm_calls = summary_llm_calls(fn.state)]
    /\ UNCHANGED <<checkpoint, thread_id, current_summary, pc, turn, folded, stats, ext>>

NextFn == CallSummarize

SpecSumm == InitFn /\ [][NextFn]_vars

-----------------------------------------------------------------------------
(* Two sessions of one user, each running the chat-input handler on its own *)
(* script thread and SQLite connection, over the shared checkpoint tables   *)

\* mutant: every run is checkpointed under one fixed thread id
CheckpointKey_fixed(t) == "t1"

\* agent_config = {"configurable": {"thread_id": st.session_state.thread_id}}:
\* the key a run's checkpoints are written under
CheckpointKey(t) == t

InitConc ==
    /\ checkpoint = [t \in Threads |-> NoCheckpoint]
    /\ thread_id = None
    /\ current_summary = ""
    /\ pc = "idle"
    /\ turn = EmptyTurn
    /\ folded = [t \in Threads |-> <<>>]
    /\ stats = [t \in Threads |-> [ok |-> 0, bad |-> 0]]
    /\ fn = FnIdle
    /\ sess = NoSessions
    /\ mem = {}
    /\ ui = NoUi
    /\ tool = NoTool

ConcFrame ==
    UNCHANGED <<thread_id, current_summary, pc, turn, folded, stats, fn, mem, tool, ui>>

\* "New Thread" button in session s
SessNewThread(s) ==
    /\ sess[s].pc = "idle"
    /\ \E t \in Threads :
         /\ ~checkpoint[t].saved
         /\ sess' = [sess EXCEPT ![s].thread_id = t]
    /\ UNCHANGED checkpoint
    /\ ConcFrame

\* thread selectbox in session s
SessSelectThread(s) ==
    /\ sess[s].pc = "idle"
    /\ \E selected_thread \in get_thread_ids :
         /\ selected_thread # sess[s].thread_id
         /\ sess' = [sess EXCEPT ![s].thread_id = selected_thread]
    /\ UNCHANGED checkpoint
    /\ ConcFrame

\* chat input in session s: the run loads the thread's latest checkpoint, merges
\* the input and checkpoints; nothing keeps another session off the thread
SessChatInput(s) ==
    /\ sess[s].pc = "idle"
    /\ sess[s].thread_id # None
    /\ Len(checkpoint[sess[s].thread_id].messages) < MaxConcMsgs
    /\ LET loaded == checkpoint[sess[s].thread_id]
           state == ApplyMessages(loaded, [messages |-> <<HumanMessage(0)>>])
       IN  /\ sess' = [sess EXCEPT ![s].pc = "conversation", ![s].state = state]
           /\ checkpoint' = [checkpoint EXCEPT ![CheckpointKey(sess[s].thread_id)] = state]
    /\ ConcFrame

\* the conversation node of session s's run, on the state the run holds; the
\* agent answers (failures are the subject of Spec)
SessConversation(s) ==
    /\ sess[s].pc = "conversation"
    /\ LET state == sess[s].state
           agent_input == messages_for_react_agent_input(state)
       IN  \E response \in AgentResponses(agent_input, FreshId(state.messages)) :
             LET ret == call_model_return(response)
                 new_state == ApplyMessages(state, ret)
             IN  /\ ~ret.st_error
                 /\ sess' = [sess EXCEPT ![s].pc = AfterConversation(new_state),
                                          ![s].state = new_state]
                 /\ checkpoint' = [checkpoint EXCEPT
                                     ![CheckpointKey(sess[s].thread_id)] = new_state]
    /\ ConcFrame

\* the summarize_conversation node of session s's run
SessSummarize(s) ==
    /\ sess[s].pc = "summarize_conversation"
    /\ \E generated \in GenTexts :
         LET new_state ==
                 ApplySummary(sess[s].state,
                              summarize_conversation(sess[s].state, generated))
         IN  /\ sess' = [sess EXCEPT ![s].pc = AfterSummarize, ![s].state = new_state]
             /\ checkpoint' = [checkpoint EXCEPT
                                 ![CheckpointKey(sess[s].thread_id)] = new_state]
    /\ ConcFrame

\* the stream is consumed, the script reruns
SessReload(s) ==
    /\ sess[s].pc = "end"
    /\ sess' = [sess EXCEPT ![s].pc = "idle", ![s].state = NoCheckpoint]
    /\ UNCHANGED checkpoint
    /\ ConcFrame

NextConc ==
    \E s \in Sessions :
        \/ SessNewThread(s)
        \/ SessSelectThread(s)
        \/ SessChatInput(s)
        \/ SessConversation(s)
        \/ SessSummarize(s)
        \/ SessReload(s)

SpecConc == InitConc /\ [][NextConc]_vars

-----------------------------------------------------------------------------
(* Retrieval tools: search_web over the Memory Store, fetch_url_content *)

Users == {"u1", "u2"}
\* strings that take part in a concatenation are sequences of characters
Queries == {<<"q">>, <<"q", "_", "0">>}
\* readings of datetime.now(); the wall clock may repeat a reading
Clock == {1, 2}
Urls == {"good", "bad"}
\* what happens to one URL: fetched and parsed, requests.get raises,
\* raise_for_status raises, Document / BeautifulSoup raises
Outcomes == {"ok", "timeout", "http_error", "parse_error"}

Digits == <<"0", "1", "2", "3", "4", "5", "6", "7", "8", "9">>

RECURSIVE Str(_)
\* str(i) of a non-negative integer
Str(i) == IF i < 10 THEN <<Digits[i + 1]>>
          ELSE Str(i \div 10) \o <<Digits[(i % 10) + 1]>>

\* datetime.now().isoformat()
isoformat(ts) == <<"T">> \o Str(ts)

\* mutant: the key leaves the index out
Key_noindex(query, timestamp, i) == query \o <<"_">> \o timestamp

\* key = f"{query}_{timestamp}_{i}"
Key(query, timestamp, i) == query \o <<"_">> \o timestamp \o <<"_">> \o Str(i)

\* DDGS().text(query, max_results=num_results, timelimit=timelimit) returning k results
DDGS(k) == [i \in 1..k |-> [title |-> "title", href |-> Str(i), body |-> "body"]]

\* the value stored for one result
Value(query, timestamp, result) ==
    [query |-> query, title |-> result.title, href |-> result.href,
     body |-> result.body, timestamp |-> timestamp,
     text |-> <<result.title, " ", result.body>>]

\* store.put(namespace, key, value, index): overwrite by (namespace, key)
Put(store, namespace, key, value) ==
    {r \in store : ~(r.namespace = namespace /\ r.key = key)}
        \cup {[namespace |-> namespace, key |-> key, value |-> value]}

\* store.search(namespace, query=query, limit=1): the most similar record of
\* the namespace; which one the embedding ranks first is not determined here
Search(store, namespace) ==
    LET found == {r \in store : r.namespace = namespace}
    IN  IF found = {} THEN {<<>>} ELSE {<<r>> : r \in found}

RECURSIVE PutResults(_, _, _, _, _, _)
\* for i, result in enumerate(results): store.put(...), from index i on
PutResults(store, namespace, query, timestamp, results, i) ==
    IF i >= Len(results) THEN [store |-> store, written |-> <<>>]
    ELSE LET key == Key(query, timestamp, i)
             rest == PutResults(Put(store, namespace, key,
                                    Value(query, timestamp, results[i + 1])),
                                namespace, query, timestamp, results, i + 1)
         IN  [store |-> rest.store, written |-> <<key>> \o rest.written]

ToolFrame ==
    UNCHANGED <<checkpoint, thread_id, current_summary, pc, turn, folded, stats, fn, sess, ui>>

\* one call of search_web by the agent of user_id, in either search method
search_web ==
    /\ tool.calls < MaxSearches
    /\ \E user_id \in Users, query \in Queries, search_method_rag \in BOOLEAN,
          k \in 0..MaxResults, now \in Clock :
         LET results == DDGS(k)
             timestamp == isoformat(now)
             namespace == <<"web_search", user_id>>
             put == PutResults(mem, namespace, query, timestamp, results, 0)
         IN  \E final_results \in (IF search_method_rag
                                     THEN Search(put.store, namespace)
                                     ELSE {results}) :
               /\ mem' = put.store
               /\ tool' = [NoTool EXCEPT !.name = "search_web",
                                         !.calls = tool.calls + 1,
                                         !.user = user_id,
                                         !.query = query,
                                         !.timestamp = now,
                                         !.rag = search_method_rag,
                                         !.results = results,
                                         !.before = mem,
                                         !.written = put.written,
                                         !.returned = final_results]
    /\ ToolFrame

NextWeb == search_web

SpecWeb == Init /\ [][NextWeb]_vars

\* the body of the try block for one URL
FetchOne(url, outcome) ==
    IF outcome = "ok"
    THEN [raised |-> FALSE,
          entry |-> [url |-> url, title |-> <<"title of", url>>,
                     content |-> <<"text of", url>>]]
    ELSE [raised |-> TRUE, entry |-> [url |-> url, error |-> outcome]]

RECURSIVE fetch_url_content_abort(_, _)
\* mutant: the first failure ends the batch
fetch_url_content_abort(urls, outcomes) ==
    IF urls = <<>> THEN [raised |-> FALSE, results |-> <<>>]
    ELSE LET one == FetchOne(Head(urls), Head(outcomes))
         IN  IF one.raised THEN [raised |-> TRUE, results |-> <<>>]
             ELSE LET rest == fetch_url_content_abort(Tail(urls), Tail(outcomes))
                  IN  [raised |-> rest.raised, results |-> <<one.entry>> \o rest.results]

RECURSIVE fetch_url_content(_, _)
\* for url in urls: try ... except Exception as e: results.append({url, error})
fetch_url_content(urls, outcomes) ==
    IF urls = <<>> THEN [raised |-> FALSE, results |-> <<>>]
    ELSE LET one == FetchOne(Head(urls), Head(outcomes))
             rest == fetch_url_content(Tail(urls), Tail(outcomes))
         IN  [raised |-> rest.raised, results |-> <<one.entry>> \o rest.results]

UrlLists == UNION {[1..n -> Urls] : n \in 0..MaxUrls}

\* the agent has chosen the URLs of a call; what each fetch will meet is fixed
InitFetch ==
    /\ checkpoint = [t \in Threads |-> NoCheckpoint]
    /\ thread_id = None
    /\ current_summary = ""
    /\ pc = "idle"
    /\ turn = EmptyTurn
    /\ folded = [t \in Threads |-> <<>>]
    /\ stats = [t \in Threads |-> [ok |-> 0, bad |-> 0]]
    /\ fn = FnIdle
    /\ sess = NoSessions
    /\ mem = {}
    /\ ui = NoUi
    /\ \E urls \in UrlLists :
         \E outcomes \in [1..Len(urls) -> Outcomes] :
            tool = [NoTool EXCEPT !.urls = urls, !.outcomes = outcomes]

\* the call of the URL-fetch tool
FetchUrls ==
    /\ tool.name = ""
    /\ LET ret == fetch_url_content(tool.urls, tool.outcomes)
       IN  tool' = [tool EXCEPT !.name = "fetch_url_content",
                                !.raised = ret.raised,
                                !.returned = ret.results]
    /\ UNCHANGED mem
    /\ ToolFrame

NextFetch == FetchUrls

SpecFetch == InitFetch /\ [][NextFetch]_vars

-----------------------------------------------------------------------------
(* Login, API settings, model selection and graph construction: one script  *)
(* run of src/app.py per user interaction, over st.session_state            *)

ApiKeys == {"k1", "k2"}
BaseUrls == {"b1"}
\* the model ids the endpoint lists
ModelIds == <<"m1", "m2">>
\* fetch_model_list: a list of ids, an empty list, or an exception
FetchOutcomes == {"ids", "empty", "raises"}

\* load_user_settings(db, username): the settings saved for the user, {} if none
load_user_settings(db, username) == db[username]

\* save_user_settings(db, username, api_key, base_url)
save_user_settings(db, username, api_key, base_url) ==
    [db EXCEPT ![username] = [api_key |-> api_key, base_url |-> base_url]]

\* mutant: the script goes on without saved settings
settings_missing_off(settings) == FALSE

\* if not user_api_settings.get("api_key") or not user_api_settings.get("base_url")
settings_missing(settings) == settings.api_key = "" \/ settings.base_url = ""

\* if "user_api_settings" not in st.session_state: load them for the username
LoadSettings(u) ==
    IF u.settings_loaded THEN u
    ELSE [u EXCEPT !.settings_loaded = TRUE,
                   !.user_api_settings = load_user_settings(u.db, u.user)]

\* a text input keeps its widget value; a new one shows the saved value
TextInputs(u) ==
    IF u.inputs.present THEN u
    ELSE [u EXCEPT !.inputs = [present |-> TRUE,
                               api_key |-> u.user_api_settings.api_key,
                               base_url |-> u.user_api_settings.base_url]]

\* effective_api_key, effective_base_url: the input if not empty, else the saved
Effective(u) ==
    [api_key |-> IF u.inputs.api_key # "" THEN u.inputs.api_key
                 ELSE u.user_api_settings.api_key,
     base_url |-> IF u.inputs.base_url # "" THEN u.inputs.base_url
                  ELSE u.user_api_settings.base_url]

\* if client: (get_openai_client returned a client for both credentials)
Client(u, client_ok) ==
    /\ Effective(u).api_key # ""
    /\ Effective(u).base_url # ""
    /\ client_ok

\* credentials changed since the last fetch: clear model list and selection
CredentialChange(u) ==
    IF /\ Effective(u).api_key # ""
       /\ Effective(u).base_url # ""
       /\ Effective(u) # u.creds_for_models
    THEN [u EXCEPT !.model_ids = <<>>,
                   !.selected_model = "",
                   !.creds_for_models = Effective(u)]
    ELSE u

\* fetch the model list if there is a client and no list yet
FetchModels(u, client_ok, fetched) ==
    IF Client(u, client_ok) /\ u.model_ids = <<>> /\ fetched = "ids"
    THEN [u EXCEPT !.model_ids = ModelIds]
    ELSE u

\* the model selectbox is shown
Rendered(u, client_ok) == Client(u, client_ok) /\ u.model_ids # <<>>

\* the selectbox keeps its widget value, or takes index 0
Selectbox(u, client_ok) ==
    IF ~Rendered(u, client_ok) THEN u
    ELSE IF \E i \in 1..Len(u.model_ids) : u.model_ids[i] = u.selected_model
         THEN u
         ELSE [u EXCEPT !.selected_model = u.model_ids[1]]

\* the Save button with both inputs filled in
SaveSettings(u) ==
    [u EXCEPT !.db = save_user_settings(u.db, u.user, u.inputs.api_key, u.inputs.base_url),
              !.user_api_settings = [api_key |-> u.inputs.api_key,
                                     base_url |-> u.inputs.base_url]]

\* from the settings guard to the end of graph construction
GraphStage(u) ==
    IF settings_missing(u.user_api_settings)
    THEN [u EXCEPT !.phase = "stopped"]
    ELSE IF \/ ~u.app.built
            \/ u.last_api_settings = <<>>
            \/ u.last_api_settings # <<u.user_api_settings>>
         THEN IF u.selected_model = ""
              \* st.session_state.selected_model raises AttributeError
              THEN [u EXCEPT !.phase = "error"]
              ELSE [u EXCEPT !.app = [built |-> TRUE,
                                      model |-> u.selected_model,
                                      api_key |-> u.user_api_settings.api_key,
                                      base_url |-> u.user_api_settings.base_url,
                                      user_id |-> u.user],
                             !.last_api_settings = <<u.user_api_settings>>,
                             !.phase = "ready"]
         ELSE [u EXCEPT !.phase = "ready"]

\* the graph run of a chat input, with what the session holds at that moment
RunOf(u) ==
    [ran |-> TRUE,
     graph_user |-> u.app.user_id,
     graph_model |-> u.app.model,
     graph_api |-> [api_key |-> u.app.api_key, base_url |-> u.app.base_url],
     user |-> u.user,
     selected_model |-> u.selected_model,
     settings |-> u.user_api_settings]

\* the chat-input handler, if the script got as far and there is an input
ChatStage(u, chat) ==
    IF chat /\ u.phase = "ready" THEN [u EXCEPT !.run = RunOf(u)] ELSE u

\* end of a script run: the state of a keyed widget that was not rendered goes
EndOfRun(u, client_ok) ==
    IF Rendered(u, client_ok) THEN u ELSE [u EXCEPT !.selected_model = ""]

\* the sidebar's API Settings expander up to the Save button
SettingsStage(u, client_ok, fetched) ==
    Selectbox(FetchModels(CredentialChange(TextInputs(LoadSettings(u))),
                          client_ok, fetched),
              client_ok)

\* one run of the script for an authenticated user, starting from session
\* state u: save is the Save button (followed by st.rerun()), chat a chat input
ScriptRun(u, client_ok, fetched, save, chat) ==
    \E first \in {SettingsStage(u, client_ok, fetched)} :
    \E shown \in {IF save /\ first.inputs.api_key # "" /\ first.inputs.base_url # ""
                  THEN SettingsStage(SaveSettings(first), client_ok, fetched)
                  ELSE first} :
    \E built \in {GraphStage(shown)} :
        ui' = EndOfRun(ChatStage(built, chat), client_ok)

UiFrame ==
    UNCHANGED <<checkpoint, thread_id, current_summary, pc, turn, folded, stats, fn,
                sess, mem, tool>>

\* authenticator.login succeeds for a registered user; the script reruns
UiLogin ==
    /\ ui.user = ""
    /\ \E username \in Users, client_ok \in BOOLEAN, fetched \in FetchOutcomes :
         ScriptRun([ui EXCEPT !.user = username, !.run = NoRun],
                   client_ok, fetched, FALSE, FALSE)
    /\ UiFrame

\* authenticator.logout: the session goes on, the sidebar widgets are not rendered
UiLogout ==
    /\ ui.user # ""
    /\ ui' = [ui EXCEPT !.user = "",
                        !.phase = "login",
                        !.inputs = [present |-> FALSE, api_key |-> "", base_url |-> ""],
                        !.selected_model = "",
                        !.run = NoRun]
    /\ UiFrame

\* the user edits the API key / base URL text inputs
UiTypeInputs ==
    /\ ui.user # ""
    /\ \E api_key \in ApiKeys \cup {""}, base_url \in BaseUrls \cup {""},
          client_ok \in BOOLEAN, fetched \in FetchOutcomes :
         /\ <<api_key, base_url>> # <<ui.inputs.api_key, ui.inputs.base_url>>
         /\ ScriptRun([ui EXCEPT !.inputs = [present |-> TRUE, api_key |-> api_key,
                                             base_url |-> base_url],
                                 !.run = NoRun],
                      client_ok, fetched, FALSE, FALSE)
    /\ UiFrame

\* the user picks another model in the selectbox
UiSelectModel ==
    /\ ui.user # ""
    /\ ui.selected_model # ""
    /\ \E i \in 1..Len(ui.model_ids), client_ok \in BOOLEAN, fetched \in FetchOutcomes :
         /\ ui.model_ids[i] # ui.selected_model
         /\ ScriptRun([ui EXCEPT !.selected_model = ui.model_ids[i], !.run = NoRun],
                      client_ok, fetched, FALSE, FALSE)
    /\ UiFrame

\* the Save API Settings button
UiSave ==
    /\ ui.user # ""
    /\ \E client_ok \in BOOLEAN, fetched \in FetchOutcomes :
         ScriptRun([ui EXCEPT !.run = NoRun], client_ok, fetched, TRUE, FALSE)
    /\ UiFrame

\* a chat input: the script runs again and, if it gets there, the handler runs
\* the turn on st.session_state.app
UiChatInput ==
    /\ ui.user # ""
    /\ ui.phase = "ready"
    /\ \E client_ok \in BOOLEAN, fetched \in FetchOutcomes :
         ScriptRun([ui EXCEPT !.run = NoRun], client_ok, fetched, FALSE, TRUE)
    /\ UiFrame

NextUi ==
    \/ UiLogin
    \/ UiLogout
    \/ UiTypeInputs
    \/ UiSelectModel
    \/ UiSave
    \/ UiChatInput

SpecUi == Init /\ [][NextUi]_vars

-----------------------------------------------------------------------------
(* Properties *)

\* the thread of the run in flight has a turn that is not complete yet
InTurn(t) == t = thread_id /\ pc \in {"conversation", "summarize_conversation", "error"}

CountType(s, ty) == Cardinality({i \in DOMAIN s : s[i].type = ty})

\* ids selected by the Summarizer runs recorded for thread t
FoldedIds(t) == UNION {folded[t][k] : k \in DOMAIN folded[t]}

\* number of Summarizer runs that selected message id i of thread t
FoldCount(t, i) == Cardinality({k \in DOMAIN folded[t] : i \in folded[t][k]})

IsPrefix(a, b) == Len(a) <= Len(b) /\ \A i \in DOMAIN a : a[i] = b[i]

\* C1: a thread whose N turns all completed without error holds exactly 2N
\* messages, N user and N assistant messages, one assistant message after each
\* user message, whatever summarizations and tool calls happened.
C1_TwoMessagesPerTurn ==
    \A t \in Threads :
        (stats[t].bad = 0 /\ ~InTurn(t)) =>
            LET log == checkpoint[t].messages
            IN  /\ Len(log) = 2 * stats[t].ok
                /\ CountType(log, "human") = stats[t].ok
                /\ CountType(log, "ai") = stats[t].ok
                /\ \A i \in DOMAIN log :
                     log[i].type = IF i % 2 = 1 THEN "human" ELSE "ai"

\* a fifth error-free turn completes with a tool call and a summarization
C1_Witness ==
    /\ pc = "end"
    /\ turn.tool_calls >= 1
    /\ turn.summarized
    /\ stats[thread_id].bad = 0
    /\ stats[thread_id].ok = 5
    /\ Len(checkpoint[thread_id].messages) = 10

\* C2: once the reply of a turn is appended, the Summarizer runs in that turn
\* exactly when the thread holds more than 6 messages.
C2_TriggerExact ==
    /\ pc = "summarize_conversation" => Len(checkpoint[thread_id].messages) > 6
    /\ turn.summarized => Len(checkpoint[thread_id].messages) > 6
    /\ pc = "end" => (turn.summarized <=> Len(checkpoint[thread_id].messages) > 6)
    /\ (pc = "end" /\ Len(checkpoint[thread_id].messages) <= 6) => turn.llm_calls = 0

\* a turn ends with 7 messages in the thread and the Summarizer has run
C2_Witness ==
    /\ pc = "end"
    /\ Len(checkpoint[thread_id].messages) = 7
    /\ turn.summarized
    /\ turn.llm_calls = 1

\* C3: the agent input is the summary as one system message when the summary is
\* non-empty, then the last 5 messages of the thread in order, ending with the
\* new user message; it never holds more than 6 messages.
C3_AgentInput ==
    turn.agent_input # <<>> =>
        LET inp == turn.agent_input
            log == turn.seen.messages
            text == IF turn.seen.summary = <<>> THEN "" ELSE turn.seen.summary[1]
            ctx == IF text = "" THEN 0 ELSE 1
            k == IF Len(log) < 5 THEN Len(log) ELSE 5
        IN  /\ Len(inp) = ctx + k
            /\ Len(inp) <= 6
            /\ ctx = 1 => (inp[1].type = "system" /\ inp[1].content = text)
            /\ \A i \in 1..k : inp[ctx + i] = log[Len(log) - k + i]
            /\ \A i \in 1..k : inp[ctx + i].type # "system"
            /\ inp[Len(inp)].type = "human"
            /\ inp[Len(inp)] = log[Len(log)]
            /\ turn.replied =>
                 log = SubSeq(checkpoint[thread_id].messages, 1, Len(log))

\* a long thread with a summary: the agent got the summary and 5 of 11 messages
C3_Witness ==
    /\ turn.replied
    /\ Len(turn.seen.messages) = 11
    /\ turn.seen.summary = <<"sA">>
    /\ Len(turn.agent_input) = 6

\* C4: at the start of a turn every message older than the last-5 window has
\* been folded into the summary by an earlier summarization.
C4_OlderMessagesSummarized ==
    pc = "conversation" =>
        LET log == checkpoint[thread_id].messages
        IN  \A i \in DOMAIN log :
              i <= Len(log) - 5 => log[i].id \in FoldedIds(thread_id)

\* C5 (as stated): no message an earlier Summarizer run selected is among the
\* messages handed to the Response Agent in a later turn.
C5_SummarizedExcluded ==
    (turn.agent_input # <<>> /\ ~turn.summarized) =>
        \A i \in DOMAIN turn.agent_input :
            turn.agent_input[i].type # "system" =>
                turn.agent_input[i].id \notin FoldedIds(thread_id)

\* C5 (amended): a message an earlier Summarizer run selected can reappear in a
\* later agent input only as one of the two oldest window messages; the three
\* most recent messages handed to the agent were never selected.
C5_RecentThreeNeverSummarized ==
    (turn.agent_input # <<>> /\ ~turn.summarized) =>
        LET inp == turn.agent_input
        IN  \A i \in DOMAIN inp :
              (inp[i].type # "system" /\ inp[i].id \in FoldedIds(thread_id)) =>
                  /\ i <= Len(inp) - 3
                  /\ Len(turn.seen.messages) > 5
                  /\ \E j \in {Len(turn.seen.messages) - 4, Len(turn.seen.messages) - 3} :
                       turn.seen.messages[j] = inp[i]

\* the agent is handed a message that an earlier run already summarized
C5_Witness ==
    /\ turn.replied
    /\ ~turn.summarized
    /\ \E i \in DOMAIN turn.agent_input :
         /\ turn.agent_input[i].type # "system"
         /\ turn.agent_input[i].id \in FoldedIds(thread_id)

\* C6 (as stated): each message is selected by at most one Summarizer run.
C6_SummarizedOnce ==
    \A t \in Threads : \A i \in Ids(checkpoint[t].messages) : FoldCount(t, i) <= 1

\* C6 (amended): a message is selected again by every later run while it is
\* among the 10 messages before the two most recent, so by at most 5 runs.
C6_SummarizedAtMostFive ==
    \A t \in Threads : \A i \in Ids(checkpoint[t].messages) : FoldCount(t, i) <= 5

\* a message has been selected by 5 runs
C6_Witness ==
    \E t \in Threads : \E i \in Ids(checkpoint[t].messages) : FoldCount(t, i) = 5

\* C7: the Summarizer selects the messages before the two most recent, capped
\* to the most recent 10 of them; with nothing selected it returns the existing
\* summary and calls no model, otherwise it calls the model once and returns
\* the generated text; with 8 messages it selects messages [0:6].
C7_SummarizerSelection ==
    fn.called =>
        LET log == fn.state.messages
            n == Len(log)
            hi == n - 2
            lo == IF hi > 10 THEN hi - 9 ELSE 1
            old == IF fn.state.summary = <<>> THEN "" ELSE fn.state.summary[1]
        IN  /\ Len(fn.selected) = (IF hi < 1 THEN 0 ELSE hi - lo + 1)
            /\ Len(fn.selected) <= 10
            /\ \A i \in DOMAIN fn.selected : fn.selected[i] = log[lo + i - 1]
            /\ fn.selected = <<>> => (fn.out.summary = old /\ fn.llm_calls = 0)
            /\ fn.selected # <<>> => (fn.out.summary = fn.generated /\ fn.llm_calls = 1)
            /\ n = 8 => fn.selected = SubSeq(log, 1, 6)

\* 14 messages: the cap cuts the 12 earlier messages down to the last 10
C7_Witness ==
    /\ fn.called
    /\ Len(fn.state.messages) = 14
    /\ Len(fn.selected) = 10
    /\ fn.llm_calls = 1
    /\ fn.out.summary = "sC"

\* C8: the summarization step leaves the thread's message log as it was.
C8_SummarizeKeepsLog ==
    [][pc = "summarize_conversation" =>
         /\ checkpoint'[thread_id].messages = checkpoint[thread_id].messages
         /\ \A t \in Threads :
              Len(checkpoint'[t].messages) = Len(checkpoint[t].messages)]_vars

\* a summarization has replaced the summary of a thread of 10 messages
C8_Witness ==
    /\ pc = "end"
    /\ turn.summarized
    /\ turn.llm_calls = 1
    /\ Len(checkpoint[thread_id].messages) = 10
    /\ checkpoint[thread_id].summary = <<"sA">>
    /\ turn.seen.summary = <<"">>

\* C9: the message log of every thread only grows at its end: each step keeps
\* the earlier log as a prefix of the later one.
C9_AppendOnly ==
    [][\A t \in Threads :
         IsPrefix(checkpoint[t].messages, checkpoint'[t].messages)]_vars

\* a summarization ends a turn on one thread while the other thread, selected
\* earlier in the session, holds messages too
C9_Witness ==
    /\ pc = "end"
    /\ turn.summarized
    /\ \E t \in Threads :
         /\ t # thread_id
         /\ Len(checkpoint[t].messages) >= 2
         /\ Len(checkpoint[thread_id].messages) >= 10

C11_AgentFailureLeavesState ==
    (pc = "error" /\ ~turn.replied) =>
        /\ turn.path = <<"conversation">>
        /\ checkpoint[thread_id] = turn.before

\* C12: when the summary generation raises after the reply was produced, the
\* persisted state is not left partially updated: it equals the state saved
\* before the turn.
C12_SummaryFailureLeavesState ==
    (pc = "error" /\ turn.summarized) =>
        /\ checkpoint[thread_id].messages = turn.before.messages
        /\ checkpoint[thread_id].summary = turn.before.summary

\* C18: between turns the summary shown for the selected thread is that thread's
\* persisted summary, and the empty string when the thread has none.
C18_ShownSummaryIsThreads ==
    (pc = "idle" /\ thread_id # None) =>
        current_summary = (IF checkpoint[thread_id].saved
                              /\ checkpoint[thread_id].summary # <<>>
                           THEN checkpoint[thread_id].summary[1]
                           ELSE "")

\* a never-summarized thread is selected after a summarized one was shown
C18_Witness ==
    /\ pc = "idle"
    /\ thread_id = "t2"
    /\ checkpoint["t2"].saved
    /\ checkpoint["t2"].summary = <<>>
    /\ checkpoint["t1"].summary = <<"sA">>
    /\ stats["t1"].ok >= 5
    /\ current_summary = ""

TurnStep ==
    ConversationNode \/ ConversationRaises \/ SummarizeNode \/ SummarizeRaises
        \/ Reload \/ HandleError

\* C19: a turn enters the conversation node once, then the summarizer at most
\* once, never the conversation node again, and always has a next step until it
\* is done.
C19_TurnPath ==
    LET conv == <<"conversation">>
        both == <<"conversation", "summarize_conversation">>
    IN  /\ pc \in {"idle", "conversation", "summarize_conversation", "end", "error"}
        /\ pc \in {"idle", "conversation"} => turn.path = <<>>
        /\ pc = "summarize_conversation" => turn.path = conv
        /\ pc \in {"end", "error"} => turn.path \in {conv, both}
        /\ pc = "end" => turn.replied
        /\ pc # "idle" => ENABLED TurnStep

\* a turn ends after the conversation node and the summarizer ran, in that order
C19_Witness ==
    /\ pc = "end"
    /\ turn.path = <<"conversation", "summarize_conversation">>

\* C13: turns on one thread run strictly one after another: no two sessions
\* are inside a turn on the same thread at the same time.
C13_OneTurnPerThread ==
    \A s1 \in Sessions : \A s2 \in Sessions :
        (s1 # s2 /\ sess[s1].pc # "idle" /\ sess[s2].pc # "idle") =>
            sess[s1].thread_id # sess[s2].thread_id

\* C14: a step of a turn changes the persisted messages and summary of no
\* thread but the one the stepping session has selected.
C14_ThreadsIsolated ==
    [][\A t \in Threads :
         checkpoint'[t] # checkpoint[t] =>
             \E s \in Sessions :
                 /\ sess[s].thread_id = t
                 /\ sess'[s] # sess[s]
                 /\ \A o \in Sessions \ {s} : sess'[o] = sess[o]]_vars

\* a turn on t1 has reached its summarization while a turn on t2 is under way
C14_Witness ==
    \E s1 \in Sessions : \E s2 \in Sessions :
        /\ sess[s1].thread_id = "t1"
        /\ sess[s1].pc = "end"
        /\ sess[s1].state.summary = <<"sA">>
        /\ sess[s2].thread_id = "t2"
        /\ sess[s2].pc = "conversation"
        /\ checkpoint["t2"] = sess[s2].state
        /\ checkpoint["t1"] = sess[s1].state

\* C15: a web search for which the provider returned nothing returns an empty
\* result and writes no record, in either mode and whatever the store held.
C15_ZeroResultsEmpty ==
    (tool.name = "search_web" /\ tool.results = <<>>) =>
        /\ tool.returned = <<>>
        /\ tool.written = <<>>
        /\ mem = tool.before

\* C16: in semantic-rerank mode the tool returns one record of the batch it has
\* just stored (nothing when the batch is empty); in raw mode it returns the
\* provider's list.
C16_TopMatchFromBatch ==
    (tool.name = "search_web") =>
        IF tool.rag
        THEN /\ Len(tool.returned) = (IF tool.results = <<>> THEN 0 ELSE 1)
             /\ \A n \in 1..Len(tool.returned) :
                  /\ tool.returned[n].namespace = <<"web_search", tool.user>>
                  /\ \E i \in 1..Len(tool.written) : tool.returned[n].key = tool.written[i]
        ELSE tool.returned = tool.results

\* C17: the URL-fetch tool never raises and returns one entry per input URL in
\* input order: url, title and content where the URL was fetched and parsed,
\* url and error where it failed, each entry depending on its own URL only.
C17_OneEntryPerUrl ==
    (tool.name = "fetch_url_content") =>
        /\ ~tool.raised
        /\ Len(tool.returned) = Len(tool.urls)
        /\ \A i \in 1..Len(tool.urls) :
             /\ tool.returned[i].url = tool.urls[i]
             /\ IF tool.outcomes[i] = "ok"
                THEN tool.returned[i] = [url |-> tool.urls[i],
                                         title |-> <<"title of", tool.urls[i]>>,
                                         content |-> <<"text of", tool.urls[i]>>]
                ELSE tool.returned[i] = [url |-> tool.urls[i], error |-> tool.outcomes[i]]

\* a batch whose first URL fails and whose later URLs are fetched
C17_Witness ==
    /\ tool.name = "fetch_url_content"
    /\ tool.urls = <<"bad", "good", "good">>
    /\ tool.outcomes = <<"timeout", "ok", "ok">>
    /\ Len(tool.returned) = 3
    /\ DOMAIN tool.returned[1] = {"url", "error"}
    /\ DOMAIN tool.returned[3] = {"url", "title", "content"}

\* C20: a search with k provider results makes k writes, under the user's
\* web_search namespace, with the keys {query}_{timestamp}_{index} for index
\* 0..k-1, pairwise distinct, each record holding its own result.
C20_BatchKeysDistinct ==
    (tool.name = "search_web") =>
        LET k == Len(tool.results)
            namespace == <<"web_search", tool.user>>
            ts == <<"T">> \o Str(tool.timestamp)
        IN  /\ Len(tool.written) = k
            /\ Cardinality({tool.written[i] : i \in 1..k}) = k
            /\ \A i \in 1..k :
                 /\ tool.written[i] = tool.query \o <<"_">> \o ts \o <<"_">> \o Str(i - 1)
                 /\ \E r \in mem :
                      /\ r.namespace = namespace
                      /\ r.key = tool.written[i]
                      /\ r.value.href = tool.results[i].href
                      /\ r.value.query = tool.query
            /\ {r \in mem : r.namespace # namespace}
                   = {r \in tool.before : r.namespace # namespace}
            /\ \A r \in mem \ tool.before : \E i \in 1..k : r.key = tool.written[i]

\* a second search by the same user, with the same query at the same clock
\* reading, that stored two results
C20_Witness ==
    /\ tool.name = "search_web"
    /\ tool.calls = 2
    /\ Len(tool.results) = 2
    /\ \E r \in tool.before : r.namespace = <<"web_search", tool.user>>
    /\ Cardinality({r \in mem : r.namespace = <<"web_search", tool.user>>}) >= 3

\* C21: the graph is only ever constructed with an API key, a base URL and a
\* selected model that are all present.
C21_GraphNeedsAllSettings ==
    ui.app.built =>
        /\ ui.app.api_key # ""
        /\ ui.app.base_url # ""
        /\ ui.app.model # ""

\* settings are saved but no graph could be built: the model list was not
\* fetched, no model is selected, the run ended in the construction
C21_Witness ==
    /\ ui.phase = "error"
    /\ ~ui.app.built
    /\ ui.user_api_settings.api_key # ""
    /\ ui.user_api_settings.base_url # ""
    /\ ui.model_ids = <<>>
    /\ ui.selected_model = ""

\* C22: a turn runs on a graph whose tools are bound to the user_id of the user
\* who is logged in at that moment.
C22_GraphUserIsSessionUser ==
    ui.run.ran => ui.run.graph_user = ui.run.user

\* C23: a turn runs on a graph created with the currently selected model and
\* the currently saved API settings.
C23_GraphModelIsSelected ==
    ui.run.ran =>
        /\ ui.run.graph_model = ui.run.selected_model
        /\ ui.run.graph_api = ui.run.settings

\* C24: a thread's persisted summary changes only in the step of the
\* summarize_conversation node of a turn on that thread; the conversation node
\* leaves it as it is, and a turn that ends without summarization (at most 6
\* messages after the reply) ends with the summary the thread had at its start.
C24_SummaryOnlyBySummarizer ==
    [][/\ \A t \in Threads :
            checkpoint'[t].summary # checkpoint[t].summary =>
                /\ t = thread_id
                /\ pc = "summarize_conversation"
                /\ pc' = "end"
       /\ (pc' = "end" /\ turn'.path = <<"conversation">>) =>
            /\ Len(checkpoint'[thread_id'].messages) <= SummaryThreshold
            /\ checkpoint'[thread_id'].summary = turn'.before.summary]_vars

\* the third turn of a thread has ended without summarization while the other
\* thread holds a summary
C24_Witness ==
    /\ pc = "end"
    /\ turn.path = <<"conversation">>
    /\ turn.replied
    /\ Len(checkpoint[thread_id].messages) = SummaryThreshold
    /\ \E t \in Threads : t # thread_id /\ checkpoint[t].summary = <<"sA">>

====
